---------------------------- MODULE Spec2Model ----------------------------
(***************************************************************************)
(* A model of somajo/tokenizer.py: the mask-protect-restore pipeline of    *)
(* Tokenizer.tokenize.  A text is a sequence of one-character strings.     *)
(* The patterns of Tokenizer.__init__ are transcribed as syntax trees and  *)
(* matched by a backtracking matcher with the semantics of the regex      *)
(* module (leftmost match, alternatives and quantifiers tried in order).   *)
(***************************************************************************)
EXTENDS Integers, Sequences, FiniteSets, TLC

(***************************************************************************)
(* Characters and character classes.                                       *)
(***************************************************************************)
Lowers == <<"a","b","c","d","e","f","g","h","i","j","k","l","m",
            "n","o","p","q","r","s","t","u","v","w","x","y","z">>
Uppers == <<"A","B","C","D","E","F","G","H","I","J","K","L","M",
            "N","O","P","Q","R","S","T","U","V","W","X","Y","Z">>
Lower == {Lowers[i] : i \in DOMAIN Lowers}
Upper == {Uppers[i] : i \in DOMAIN Uppers}
Alpha == Lower \cup Upper
Digit == {"0","1","2","3","4","5","6","7","8","9"}
Alnum == Alpha \cup Digit
Word  == Alnum \cup {"_"}
Space == {" ", "\n", "\t", "\r", "\f"}

\* Both cases of a character (re.IGNORECASE).
BothCases(c) ==
  {c} \cup {Uppers[i] : i \in {j \in DOMAIN Lowers : Lowers[j] = c}}
      \cup {Lowers[i] : i \in {j \in DOMAIN Uppers : Uppers[j] = c}}

(***************************************************************************)
(* Pattern syntax.  A pattern is a sequence of nodes (a concatenation).    *)
(***************************************************************************)
\* An upper repetition bound of -1 is no bound.
S(set)          == [t |-> "set", s |-> set]
N(set)          == [t |-> "nset", s |-> set]
Dot             == [t |-> "nset", s |-> {"\n"}]
Alt(alts)       == [t |-> "alt", a |-> alts]
NC(body)        == [t |-> "alt", a |-> <<body>>]
Grp(n, body)    == [t |-> "grp", n |-> n, r |-> body]
Rep(body,lo,hi) == [t |-> "rep", r |-> body, lo |-> lo, hi |-> hi, greedy |-> TRUE]
RepL(body,lo,hi) == [t |-> "rep", r |-> body, lo |-> lo, hi |-> hi, greedy |-> FALSE]
Opt(body)       == Rep(body, 0, 1)
Star(body)      == Rep(body, 0, -1)
Plus(body)      == Rep(body, 1, -1)
Ref(n)          == [t |-> "ref", n |-> n]
La(body)        == [t |-> "la", r |-> body, pos |-> TRUE]
Nla(body)       == [t |-> "la", r |-> body, pos |-> FALSE]
Lb(w, body)     == [t |-> "lb", r |-> body, w |-> w, pos |-> TRUE]
Nlb(w, body)    == [t |-> "lb", r |-> body, w |-> w, pos |-> FALSE]
Bol             == [t |-> "bol"]
Eol             == [t |-> "eol"]
Wb              == [t |-> "wb"]
\* A literal string, and a literal string under re.IGNORECASE.
Lit(str)        == [i \in DOMAIN str |-> S({str[i]})]
LitI(str)       == [i \in DOMAIN str |-> S(BothCases(str[i]))]
\* The alternation of the entries of a lexicon, in the lexicon's order.
LexAlt(lex)     == Alt([i \in DOMAIN lex |-> Lit(lex[i])])
LexAltI(lex)    == Alt([i \in DOMAIN lex |-> LitI(lex[i])])
\* A compiled pattern: its tree, its number of groups and the numbers of its
\* named groups in the order of their names (sorted(match.groupdict().items())).
Pattern(ng, named, re) == [re |-> re, ng |-> ng, named |-> named]

(***************************************************************************)
(* The matcher.  MSeq(re, k, txt, i, caps) is the sequence, in the order   *)
(* a backtracking engine tries them, of the ways re[k..] matches txt from  *)
(* offset i (i characters consumed); each is the end offset e and the      *)
(* captured groups c (group number -> <<begin, end>>, <<-1,-1>> if unset). *)
(***************************************************************************)
RECURSIVE MSeq(_, _, _, _, _)
RECURSIVE MNode(_, _, _, _)
RECURSIVE MRep(_, _, _, _, _)
RECURSIVE Cont(_, _, _, _, _)
RECURSIVE ContRep(_, _, _, _, _, _)
RECURSIVE MAlt(_, _, _, _, _)

IsWordAt(txt, j) == j >= 1 /\ j <= Len(txt) /\ txt[j] \in Word

MSeq(re, k, txt, i, caps) ==
  IF k > Len(re) THEN << [e |-> i, c |-> caps] >>
  ELSE Cont(MNode(re[k], txt, i, caps), 1, re, k + 1, txt)

Cont(rs, j, re, k, txt) ==
  IF j > Len(rs) THEN << >>
  ELSE MSeq(re, k, txt, rs[j].e, rs[j].c) \o Cont(rs, j + 1, re, k, txt)

MAlt(alts, j, txt, i, caps) ==
  IF j > Len(alts) THEN << >>
  ELSE MSeq(alts[j], 1, txt, i, caps) \o MAlt(alts, j + 1, txt, i, caps)

ContRep(rs, j, node, txt, i, cnt) ==
  IF j > Len(rs) THEN << >>
  ELSE (IF rs[j].e > i THEN MRep(node, txt, rs[j].e, rs[j].c, cnt + 1) ELSE << >>)
       \o ContRep(rs, j + 1, node, txt, i, cnt)

MRep(node, txt, i, caps, cnt) ==
  LET more == IF node.hi < 0 \/ cnt < node.hi
              THEN ContRep(MSeq(node.r, 1, txt, i, caps), 1, node, txt, i, cnt)
              ELSE << >>
      stop == IF cnt >= node.lo THEN << [e |-> i, c |-> caps] >> ELSE << >>
  IN  IF node.greedy THEN more \o stop ELSE stop \o more

MNode(node, txt, i, caps) ==
  CASE node.t = "set" ->
         IF i < Len(txt) /\ txt[i + 1] \in node.s
         THEN << [e |-> i + 1, c |-> caps] >> ELSE << >>
    [] node.t = "nset" ->
         IF i < Len(txt) /\ txt[i + 1] \notin node.s
         THEN << [e |-> i + 1, c |-> caps] >> ELSE << >>
    [] node.t = "alt" -> MAlt(node.a, 1, txt, i, caps)
    [] node.t = "grp" ->
         LET rs == MSeq(node.r, 1, txt, i, caps)
         IN  [j \in DOMAIN rs |->
                [e |-> rs[j].e, c |-> [rs[j].c EXCEPT ![node.n] = <<i, rs[j].e>>]]]
    [] node.t = "rep" -> MRep(node, txt, i, caps, 0)
    [] node.t = "ref" ->
         LET b == caps[node.n][1]
             n == caps[node.n][2] - b
         IN  IF b >= 0 /\ i + n <= Len(txt)
                /\ \A d \in 1..n : txt[i + d] = txt[b + d]
             THEN << [e |-> i + n, c |-> caps] >> ELSE << >>
    [] node.t = "la" ->
         IF (MSeq(node.r, 1, txt, i, caps) # << >>) = node.pos
         THEN << [e |-> i, c |-> caps] >> ELSE << >>
    [] node.t = "lb" ->
         LET rs  == IF i >= node.w THEN MSeq(node.r, 1, txt, i - node.w, caps) ELSE << >>
             hit == \E j \in DOMAIN rs : rs[j].e = i
         IN  IF hit = node.pos THEN << [e |-> i, c |-> caps] >> ELSE << >>
    [] node.t = "bol" -> IF i = 0 THEN << [e |-> i, c |-> caps] >> ELSE << >>
    [] node.t = "eol" ->
         IF i = Len(txt) \/ (i = Len(txt) - 1 /\ txt[Len(txt)] = "\n")
         THEN << [e |-> i, c |-> caps] >> ELSE << >>
    [] node.t = "wb" ->
         IF IsWordAt(txt, i) # IsWordAt(txt, i + 1)
         THEN << [e |-> i, c |-> caps] >> ELSE << >>

NoCaps(ng) == [g \in 1..ng |-> <<-1, -1>>]

\* regex.finditer: the non-overlapping matches, left to right, as records
\* [b, e, c] (span begin and end offsets, captured groups).
RECURSIVE FindIter(_, _, _, _)
FindIter(re, ng, txt, pos) ==
  LET starts == {i \in pos..Len(txt) : MSeq(re, 1, txt, i, NoCaps(ng)) # << >>}
  IN  IF starts = {} THEN << >>
      ELSE LET b == CHOOSE i \in starts : \A j \in starts : i <= j
               rs == MSeq(re, 1, txt, b, NoCaps(ng))
           IN  << [b |-> b, e |-> rs[1].e, c |-> rs[1].c] >>
               \o FindIter(re, ng, txt, IF rs[1].e > b THEN rs[1].e ELSE b + 1)

\* regex.fullmatch
FullMatch(re, ng, txt) ==
  LET rs == MSeq(re, 1, txt, 0, NoCaps(ng))
  IN  \E j \in DOMAIN rs : rs[j].e = Len(txt)

(***************************************************************************)
(* The lexicons (read by _read_abbreviation_file from files that are not   *)
(* part of the source): small samples, sorted longest first as the reader  *)
(* returns them.                                                           *)
(***************************************************************************)
tokens_with_plus_or_ampersand  == << <<"H","&","M">> >>
camel_case_token_list          == << <<"i","P","h","o","n","e">> >>
single_token_abbreviation_list == << <<"P","h",".","D",".">> >>
abbreviation_list              == << <<"u","s","w",".">>, <<"D","r",".">> >>

(***************************************************************************)
(* The patterns of Tokenizer.__init__.  The texts of the model are ASCII   *)
(* without the backquote: other characters are left out of the classes,    *)
(* and such a character as a literal is the empty class S({}).             *)
(***************************************************************************)
\* tokenizer.py line 27
spaces ==
  Pattern(0, <<>>,
    <<Plus(<<S(Space)>>)>>)

\* tokenizer.py line 32
tag ==
  Pattern(2, <<>>,
    <<S({"<"}), Alt(<<<<Grp(1, <<S(Alpha \cup {":", "_"}), Star(<<S(Word \cup {"-",
    ".", ":"})>>)>>), Star(<<Plus(<<S(Space)>>), S(Alpha \cup {":", "_"}),
    Star(<<S(Word \cup {"-", ".", ":"})>>), Star(<<S(Space)>>), S({"="}),
    Star(<<S(Space)>>), Alt(<<<<S({"\""}), Star(<<N({"\""})>>), S({"\""})>>,
    <<S({"'"}), Star(<<N({"'"})>>), S({"'"})>>>>)>>), Star(<<S(Space)>>),
    Opt(<<S({"/"})>>)>>, <<S({"/"}), Grp(2, <<S(Alpha \cup {":", "_"}),
    Star(<<S(Word \cup {"-", ".", ":"})>>)>>), Star(<<S(Space)>>)>>>>), S({">"})>>)

\* tokenizer.py line 56
email ==
  Pattern(0, <<>>,
    <<Wb, Plus(<<S(Alnum \cup {"%", "+", "-", "."})>>), Alt(<<<<S({"@"})>>, <<S({" "}),
    Opt(<<S({"["})>>)>> \o Lit(<<"a", "t">>) \o <<Opt(<<S({"]"})>>), S({" "})>>>>),
    Plus(<<S(Alnum \cup {"-", "."})>>), Alt(<<<<S({"."})>>, <<S({" "}),
    Opt(<<S({"["})>>)>> \o Lit(<<"d", "o", "t">>) \o <<Opt(<<S({"]"})>>),
    S({" "})>>>>), Rep(<<S(Alpha)>>, 2, -1), Wb>>)

\* tokenizer.py line 59
simple_url_with_brackets ==
  Pattern(0, <<>>,
    <<Wb, Alt(<<<<Alt(<<LitI(<<"h", "t", "t", "p">>) \o <<Opt(<<S({"S", "s"})>>)>>,
    LitI(<<"f", "t", "p">>), LitI(<<"s", "v", "n">>)>>)>> \o Lit(<<":", "/", "/">>),
    <<Opt(LitI(<<"h", "t", "t", "p">>) \o <<Opt(<<S({"S", "s"})>>)>> \o Lit(<<":", "/",
    "/">>))>> \o LitI(<<"w", "w", "w", ".">>)>>), RepL(<<N(Space)>>, 1, -1), S({"("}),
    RepL(<<N(Space)>>, 0, -1), S({")"}), Star(<<N(Space)>>), La(<<Alt(<<<<Eol>>,
    <<S({"\t", "\n", " ", "!", "\"", "'", ",", ".", ";", "?"})>>>>)>>)>>)

\* tokenizer.py line 60
simple_url ==
  Pattern(0, <<>>,
    <<Wb, Alt(<<<<Alt(<<LitI(<<"h", "t", "t", "p">>) \o <<Opt(<<S({"S", "s"})>>)>>,
    LitI(<<"f", "t", "p">>), LitI(<<"s", "v", "n">>)>>)>> \o Lit(<<":", "/", "/">>),
    <<Opt(LitI(<<"h", "t", "t", "p">>) \o <<Opt(<<S({"S", "s"})>>)>> \o Lit(<<":", "/",
    "/">>))>> \o LitI(<<"w", "w", "w", ".">>)>>), Plus(<<N(Space)>>), N({"\t", "\n",
    " ", "!", "\"", "'", ",", ".", ":", ";", "?"})>>)

\* tokenizer.py line 61
doi ==
  Pattern(0, <<>>,
    <<Wb>> \o LitI(<<"d", "o", "i", ":", "1", "0", ".">>) \o <<Plus(<<S(Digit)>>),
    S({"/"}), Plus(<<N(Space)>>)>>)

\* tokenizer.py line 62
doi_with_space ==
  Pattern(0, <<>>,
    <<Lb(5, <<Wb>> \o LitI(<<"d", "o", "i", ":", " ">>))>> \o Lit(<<"1", "0", ".">>) \o
    <<Plus(<<S(Digit)>>), S({"/"}), Plus(<<N(Space)>>)>>)

\* tokenizer.py line 64
url_without_protocol ==
  Pattern(0, <<>>,
    <<Wb, Plus(<<S(Word \cup {"-", ".", "/"})>>), S({"."}), Alt(<<LitI(<<"d", "e">>),
    LitI(<<"c", "o", "m">>), LitI(<<"o", "r", "g">>), LitI(<<"n", "e", "t">>),
    LitI(<<"e", "d", "u">>), LitI(<<"i", "n", "f", "o">>), LitI(<<"j", "p", "g">>),
    LitI(<<"p", "n", "g">>), LitI(<<"g", "i", "f">>), LitI(<<"l", "o", "g">>),
    LitI(<<"t", "x", "t">>)>>), Opt(<<S({"-"}), Plus(<<S(Word)>>)>>), Wb>>)

\* tokenizer.py line 76
emoticon ==
  Pattern(1, <<>>,
    <<Alt(<<<<Alt(<<<<S({":", ";"})>>, <<Nlb(1, <<S(Digit)>>), S({"8"})>>>>),
    Opt(<<S({"'", "-", "O", "o"})>>), Alt(<<<<Plus(<<S({")"})>>)>>,
    <<Plus(<<S({"("})>>)>>, <<S({"*"})>>, <<Grp(1, <<S({"D", "P", "p"})>>),
    Star(<<Ref(1)>>), Nla(<<S(Word)>>)>>>>)>>, <<Alt(<<<<S({"x"}),
    Plus(<<S({"D"})>>)>>, <<S({"X"}), Plus(<<S({"D"})>>)>>>>)>>, Lit(<<":", "w", "i",
    "n", "k", ":">>), Lit(<<"*", "<", ":", "-", ")">>), Lit(<<"(", "-", ".", "-",
    ")">>), Lit(<<":", ";", "-", ")", ")">>), Lit(<<"(", "T", "_", "T", ")">>),
    <<S({"("}), S({}), S({"_"}), S({}), S({")"})>>, Lit(<<":", ";", ")", ")">>),
    Lit(<<"o", ".", "O">>), Lit(<<"_", ")", ")">>), Lit(<<".", "_", ".">>), Lit(<<")",
    "-", ":">>), Lit(<<"*", "_", "*">>), Lit(<<")", "o", ":">>), Lit(<<"(", "-",
    ":">>), Lit(<<"D", "'", ":">>), Lit(<<">", "_", "<">>), Lit(<<":", "!", ":">>),
    Lit(<<":", "'", "C">>), Lit(<<")", "'", ":">>), Lit(<<"\\", "m", "/">>),
    Lit(<<"\\", "O", "/">>), Lit(<<"D", ":">>), Lit(<<"\\", ":">>), Lit(<<">", ":">>),
    Lit(<<")", "=">>), Lit(<<":", "/">>), Lit(<<"^", "^">>), Lit(<<")", "x">>),
    Lit(<<"=", ")">>), Lit(<<"=", "(">>), Lit(<<":", "<">>), Lit(<<"]", ":">>),
    Lit(<<":", "[">>), Lit(<<"x", "(">>), Lit(<<":", "C">>), Lit(<<"=", "D">>),
    Lit(<<"=", "P">>), Lit(<<"o", "O">>)>>)>>)

\* tokenizer.py line 84
space_emoticon ==
  Pattern(2, <<>>,
    <<Grp(1, <<S({":", ";"})>>), Plus(<<S({" "})>>), Grp(2, <<S({"(", ")"})>>)>>)

\* tokenizer.py line 91
heart_emoticon ==
  Pattern(0, <<>>,
    <<Alt(<<<<Bol>>, <<Bol, N(Digit)>>, <<Lb(2, <<N(Digit), S({" "})>>)>>, <<Lb(2,
    <<Dot, N(Digit \cup {" "})>>)>>>>)>> \o Lit(<<"^", "3">>))

\* tokenizer.py line 96
token_with_plus_ampersand ==
  Pattern(0, <<>>,
    <<Nlb(1, <<S(Word)>>), LexAltI(tokens_with_plus_or_ampersand), Nla(<<S(Word)>>)>>)

\* tokenizer.py line 99
emoji ==
  Pattern(0, <<>>,
    <<Wb>> \o Lit(<<"e", "m", "o", "j", "i">>) \o <<Plus(<<S(Alpha)>>), Wb>>)

\* tokenizer.py line 103
camel_case_token ==
  Pattern(0, <<>>,
    <<Wb, Alt(<<<<LexAlt(camel_case_token_list)>>, Lit(<<":", "M", "a", "c">>) \o
    <<S(Upper), Star(<<S(Lower)>>)>>>>), Wb>>)

\* tokenizer.py line 105
in_and_innen ==
  Pattern(0, <<>>,
    <<Wb, Plus(<<S(Alpha)>>), S(Lower)>> \o Lit(<<"I", "n">>) \o <<Opt(Lit(<<"n", "e",
    "n">>)), Star(<<S(Lower)>>), Wb>>)

\* tokenizer.py line 106
camel_case ==
  Pattern(1, <<>>,
    <<Lb(2, <<Rep(<<S(Lower)>>, 2, 2)>>), Grp(1, <<S(Upper)>>),
    Nla(<<Alt(<<<<S(Upper)>>, <<Wb>>>>)>>)>>)

\* tokenizer.py line 109
single_letter_ellipsis ==
  Pattern(2, <<1, 2>>,
    <<Nlb(1, <<S(Word \cup {"."})>>), Grp(1, <<S(Alpha)>>), Grp(2, <<Rep(<<S({"."})>>,
    3, 3)>>), Nla(<<S({"."})>>)>>)

\* tokenizer.py line 110
and_cetera ==
  Pattern(0, <<>>,
    <<Nlb(1, <<S(Word \cup {"&", "."})>>)>> \o Lit(<<"&", "c", ".">>) \o
    <<Nla(<<Rep(<<S(Alpha)>>, 1, 3), S({"."})>>)>>)

\* tokenizer.py line 111
str_abbreviations ==
  Pattern(1, <<>>,
    <<Nlb(1, <<S(Word \cup {"."})>>), Grp(1, <<Plus(<<S(Alpha \cup {"-"})>>)>> \o
    LitI(<<"-", "S", "t", "r", ".">>)), Nla(<<S(Alpha)>>)>>)

\* tokenizer.py line 112
nr_abbreviations ==
  Pattern(1, <<>>,
    <<Nlb(1, <<S(Word \cup {"."})>>), Grp(1, <<Plus(<<S(Word)>>), S({"."}),
    Opt(<<S({"-"})>>)>> \o LitI(<<"N", "r", ".">>)), Nla(<<Rep(<<S(Alpha)>>, 1, 3),
    S({"."})>>)>>)

\* tokenizer.py line 113
single_letter_abbreviation ==
  Pattern(0, <<>>,
    <<Nlb(1, <<S(Word \cup {"."})>>), S(Alpha), S({"."}), Nla(<<Rep(<<S(Alpha)>>, 1,
    3), S({"."})>>)>>)

\* tokenizer.py line 116
single_token_abbreviation ==
  Pattern(0, <<>>,
    <<Nlb(1, <<S(Word \cup {"."})>>), LexAlt(single_token_abbreviation_list),
    Nla(<<Rep(<<S(Alpha)>>, 1, 3), S({"."})>>)>>)

\* tokenizer.py line 117
ps ==
  Pattern(0, <<>>,
    <<Nlb(2, <<S(Digit), S({" "})>>), Wb>> \o LitI(<<"p", "s", ".">>))

\* tokenizer.py line 118
multipart_abbreviation ==
  Pattern(0, <<>>,
    <<Rep(<<Plus(<<S(Alpha)>>), S({"."})>>, 2, -1)>>)

\* tokenizer.py line 121
abbreviation ==
  Pattern(0, <<>>,
    <<Nlb(1, <<S(Word \cup {"."})>>), Plus(<<Alt(<<<<Rep(<<S(Alpha), S({"."})>>, 2,
    -1)>>, <<LexAltI(abbreviation_list)>>>>)>>), Nla(<<Rep(<<S(Alpha)>>, 1, 3),
    S({"."})>>)>>)

\* tokenizer.py line 130
mention ==
  Pattern(0, <<>>,
    <<S({"@"}), Plus(<<S(Word)>>), Nla(<<S(Word)>>)>>)

\* tokenizer.py line 131
hashtag ==
  Pattern(0, <<>>,
    <<Nlb(1, <<S(Word)>>), S({"#"}), Plus(<<S(Word)>>), Nla(<<S(Word)>>)>>)

\* tokenizer.py line 133
action_word ==
  Pattern(3, <<1, 2, 3>>,
    <<Nlb(1, <<S(Word)>>), Grp(1, <<S({"*", "+"})>>), Grp(2,
    <<Plus(<<N(Space \cup {"*"})>>)>>), Grp(3, <<S({"*"})>>), Nla(<<S(Word)>>)>>)

\* tokenizer.py line 136
three_part_date_year_first ==
  Pattern(4, <<1, 2, 4>>,
    <<Nlb(1, <<S(Digit \cup {"."})>>), Grp(1, <<Rep(<<S(Digit)>>, 4, 4)>>), Grp(2,
    <<Grp(3, <<S({"-", "/"})>>), Rep(<<S(Digit)>>, 1, 2)>>), Grp(4, <<Ref(3),
    Rep(<<S(Digit)>>, 1, 2)>>), Nla(<<S(Digit \cup {"."})>>)>>)

\* tokenizer.py line 137
three_part_date_dmy ==
  Pattern(4, <<1, 3, 4>>,
    <<Nlb(1, <<S(Digit \cup {"."})>>), Grp(1, <<Alt(<<<<Opt(<<S({"0"})>>), S({"1", "2",
    "3", "4", "5", "6", "7", "8", "9"})>>, <<S({"1"}), S(Digit)>>, <<S({"2"}),
    S(Digit)>>, <<S({"3"}), S({"0", "1"})>>>>), Grp(2, <<S({"-", ".", "/"})>>)>>),
    Grp(3, <<Alt(<<<<Opt(<<S({"0"})>>), S({"1", "2", "3", "4", "5", "6", "7", "8",
    "9"})>>, <<S({"1"}), S({"0", "1", "2"})>>>>), Ref(2)>>), Grp(4, <<Rep(<<S(Digit),
    S(Digit)>>, 1, 2)>>), Nla(<<S(Digit \cup {"."})>>)>>)

\* tokenizer.py line 138
three_part_date_mdy ==
  Pattern(4, <<1, 3, 4>>,
    <<Nlb(1, <<S(Digit \cup {"."})>>), Grp(1, <<Alt(<<<<Opt(<<S({"0"})>>), S({"1", "2",
    "3", "4", "5", "6", "7", "8", "9"})>>, <<S({"1"}), S({"0", "1", "2"})>>>>), Grp(2,
    <<S({"-", ".", "/"})>>)>>), Grp(3, <<Alt(<<<<Opt(<<S({"0"})>>), S({"1", "2", "3",
    "4", "5", "6", "7", "8", "9"})>>, <<S({"1"}), S(Digit)>>, <<S({"2"}), S(Digit)>>,
    <<S({"3"}), S({"0", "1"})>>>>), Ref(2)>>), Grp(4, <<Rep(<<S(Digit), S(Digit)>>, 1,
    2)>>), Nla(<<S(Digit \cup {"."})>>)>>)

\* tokenizer.py line 139
two_part_date ==
  Pattern(3, <<1, 3>>,
    <<Nlb(1, <<S(Digit \cup {"."})>>), Grp(1, <<Rep(<<S(Digit)>>, 1, 2), Grp(2,
    <<S({"-", ".", "/"})>>)>>), Grp(3, <<Rep(<<S(Digit)>>, 1, 2), Ref(2)>>),
    Nla(<<S(Digit \cup {"."})>>)>>)

\* tokenizer.py line 140
time ==
  Pattern(0, <<>>,
    <<Nlb(1, <<S(Word)>>), Rep(<<S(Digit)>>, 1, 2), Rep(<<S({":"}), Rep(<<S(Digit)>>,
    2, 2)>>, 1, 2), Nla(<<S(Digit \cup {":"})>>)>>)

\* tokenizer.py line 141
ordinal ==
  Pattern(0, <<>>,
    <<Nlb(1, <<S(Word \cup {"."})>>), Alt(<<<<Rep(<<S(Digit)>>, 1, 3)>>,
    <<Rep(<<S(Digit)>>, 5, -1)>>, <<S({"3", "4", "5", "6", "7", "8", "9"}),
    Rep(<<S(Digit)>>, 3, 3)>>>>), S({"."}), Nla(<<S(Digit)>>)>>)

\* tokenizer.py line 142
fraction ==
  Pattern(0, <<>>,
    <<Nlb(1, <<S(Word)>>), Plus(<<S(Digit)>>), S({"/"}), Plus(<<S(Digit)>>),
    Nla(<<S(Digit \cup {"/"})>>)>>)

\* tokenizer.py line 143
amount ==
  Pattern(0, <<>>,
    <<Nlb(1, <<S(Word)>>), Plus(<<S(Digit)>>), Star(<<S(Digit \cup {",", "."})>>),
    S({"-"}), Nla(<<S(Word)>>)>>)

\* tokenizer.py line 144
semester ==
  Pattern(2, <<1, 2>>,
    <<Nlb(1, <<S(Word)>>), Grp(1, <<Alt(<<<<S({"S", "W", "s", "w"}), S({"S", "s"})>>,
    LitI(<<"S", "o", "S", "e">>), LitI(<<"W", "i", "S", "e">>)>>)>>), Grp(2,
    <<S(Digit), S(Digit), Opt(<<S({"/"}), S(Digit), S(Digit)>>)>>), Nla(<<S(Word)>>)>>)

\* tokenizer.py line 145
measurement ==
  Pattern(2, <<1, 2>>,
    <<Nlb(1, <<S(Word)>>), Grp(1, <<Opt(<<S({"+", "-"})>>), Star(<<S(Digit)>>),
    Opt(<<S({",", "."})>>), Plus(<<S(Digit)>>)>>), Grp(2, <<Alt(<<<<Alt(<<LitI(<<"m",
    "m">>), LitI(<<"c", "m">>), LitI(<<"d", "m">>), <<S({"M", "m"})>>, LitI(<<"k",
    "m">>)>>), Opt(<<Opt(<<S({"^"})>>), S({"2", "3"})>>)>>, LitI(<<"q", "m">>),
    <<S({"G", "g"})>>, LitI(<<"k", "g">>), LitI(<<"m", "i", "n">>), <<S({"H", "h"})>>,
    <<S({"S", "s"})>>, LitI(<<"s", "e", "k">>), LitI(<<"c", "e", "n", "t">>),
    LitI(<<"e", "u", "r">>)>>)>>), Nla(<<S(Word)>>)>>)

\* tokenizer.py line 147
number_compound ==
  Pattern(0, <<>>,
    <<Nlb(1, <<S(Word)>>), Alt(<<<<Plus(<<S(Digit)>>), Opt(<<S({"-"})>>),
    Plus(<<S(Alpha \cup {"@"})>>)>>, <<Plus(<<S(Alpha \cup {"@"})>>),
    Opt(<<S({"-"})>>), Plus(<<S(Digit)>>), Opt(<<S({"."}), S(Digit)>>)>>>>),
    Nla(<<S(Word)>>)>>)

\* tokenizer.py line 148
number ==
  Pattern(0, <<>>,
    <<Nlb(1, <<S(Word)>>), Alt(<<<<Opt(<<S({"+", "-"})>>), Star(<<S(Digit)>>),
    Opt(<<S({",", "."})>>), Plus(<<S(Digit)>>), Opt(<<S({"E", "e"}), Opt(<<S({"+",
    "-"})>>), Plus(<<S(Digit)>>)>>)>>, <<Plus(<<S(Digit)>>), Star(<<S(Digit \cup {",",
    "."})>>), Plus(<<S(Digit)>>)>>>>), Nla(<<Opt(<<S({",", "."})>>), S(Digit)>>)>>)

\* tokenizer.py line 159
quest_exclam ==
  Pattern(1, <<>>,
    <<Grp(1, <<Plus(<<S({"!", "?"})>>)>>)>>)

\* tokenizer.py line 161
space_right_arrow ==
  Pattern(2, <<>>,
    <<Grp(1, <<Plus(<<S({"-"})>>)>>), Plus(<<S(Space)>>), Grp(2, <<S({">"})>>)>>)

\* tokenizer.py line 162
space_left_arrow ==
  Pattern(2, <<>>,
    <<Grp(1, <<S({"<"})>>), Plus(<<S(Space)>>), Grp(2, <<Plus(<<S({"-"})>>)>>)>>)

\* tokenizer.py line 163
arrow ==
  Pattern(1, <<>>,
    <<Grp(1, <<Alt(<<<<Plus(<<S({"-"})>>), S({">"})>>, <<S({"<"}),
    Plus(<<S({"-"})>>)>>, <<S({})>>>>)>>)>>)

\* tokenizer.py line 165
paired_paren ==
  Pattern(3, <<>>,
    <<Grp(1, <<S({"("})>>), Nla(Lit(<<"i", "n", "n">>)), Grp(2, <<Star(<<N({"(",
    ")"})>>)>>), Grp(3, <<S({")"})>>)>>)

\* tokenizer.py line 166
paired_bracket ==
  Pattern(3, <<>>,
    <<Grp(1, <<S({"["})>>), Grp(2, <<Star(<<N({"[", "]"})>>)>>), Grp(3, <<S({"]"})>>)>>)

\* tokenizer.py line 167
paren ==
  Pattern(1, <<>>,
    <<Grp(1, <<Alt(<<<<Nlb(1, <<S(Word)>>), S({"(", "[", "{"}), La(<<S(Word)>>)>>,
    <<Lb(1, <<S(Word)>>), S({")", "]", "}"}), Nla(<<S(Word)>>)>>, <<Lb(1,
    <<S(Space)>>), S({")", "]", "}"}), La(<<S(Word)>>)>>, <<Lb(2, <<S(Word),
    S({"-"})>>), S({")"}), La(<<S(Word)>>)>>>>)>>)>>)

\* tokenizer.py line 180
all_paren ==
  Pattern(0, <<>>,
    <<Lb(1, <<S(Space)>>), S({"(", ")", "[", "]", "{", "}"}), La(<<S(Space)>>)>>)

\* tokenizer.py line 181
slash ==
  Pattern(1, <<>>,
    <<Grp(1, <<Plus(<<S({"/"})>>)>>), Nla(<<Alt(<<Lit(<<"i", "n">>) \o <<Opt(Lit(<<"n",
    "e", "n">>))>>, Lit(<<"e", "n">>)>>)>>)>>)

\* tokenizer.py line 182
paired_double_latex_quote ==
  Pattern(3, <<>>,
    <<Nlb(1, <<S({})>>), Grp(1, <<S({}), S({})>>), Grp(2, <<Plus(<<N({"'"})>>)>>),
    Grp(3, Lit(<<"'", "'">>)), Nla(<<S({"'"})>>)>>)

\* tokenizer.py line 183
paired_single_latex_quote ==
  Pattern(3, <<>>,
    <<Nlb(1, <<S({})>>), Grp(1, <<S({})>>), Grp(2, <<Plus(<<N({"'"})>>)>>), Grp(3,
    <<S({"'"})>>), Nla(<<S({"'"})>>)>>)

\* tokenizer.py line 184
paired_single_quot_mark ==
  Pattern(3, <<>>,
    <<Grp(1, <<S({"'"})>>), Grp(2, <<Plus(<<N({"'"})>>)>>), Grp(3, <<S({"'"})>>)>>)

\* tokenizer.py line 185
all_quote ==
  Pattern(0, <<>>,
    <<Lb(1, <<S(Space)>>), Alt(<<<<S({}), S({})>>, Lit(<<"'", "'">>), <<S({})>>,
    <<S({"'"})>>>>), La(<<S(Space)>>)>>)

\* tokenizer.py line 186
other_punctuation ==
  Pattern(1, <<>>,
    <<Grp(1, <<S({"\"", "$", "%", "&", "*", "+", ",", ":", ";", "<", "=", ">", "@",
    "~"})>>)>>)

\* tokenizer.py line 187
ellipsis ==
  Pattern(0, <<>>,
    <<Alt(<<<<Rep(<<S({"."})>>, 2, -1)>>, <<Plus(<<S({})>>), Opt(<<Rep(<<S({"."})>>, 2,
    -1)>>)>>>>)>>)

\* tokenizer.py line 188
dot_without_space ==
  Pattern(1, <<>>,
    <<Lb(2, <<Rep(<<S(Lower)>>, 2, 2)>>), Grp(1, <<S({"."})>>), La(<<S(Upper),
    Rep(<<S(Lower)>>, 2, 2)>>)>>)

\* tokenizer.py line 190
dot ==
  Pattern(1, <<>>,
    <<Grp(1, <<S({"."})>>)>>)

(***************************************************************************)
(* Strings.                                                                *)
(***************************************************************************)
Slice(t, b, e) == SubSeq(t, b + 1, e)                       \* t[b:e]
IsSubstring(s, t) ==                                        \* s in t
  \E i \in 0..(Len(t) - Len(s)) : \A j \in 1..Len(s) : t[i + j] = s[j]
Zeros(n) == [i \in 1..n |-> 0]
Matches(p, txt) == FindIter(p.re, p.ng, txt, 0)
Spans(ms) == [k \in DOMAIN ms |-> <<ms[k].b, ms[k].e>>]
GroupText(txt, m, g) == Slice(txt, m.c[g][1], m.c[g][2])

\* " ".join(strs)
RECURSIVE JoinSpace(_)
JoinSpace(strs) ==
  IF strs = << >> THEN << >>
  ELSE IF Len(strs) = 1 THEN strs[1]
  ELSE strs[1] \o <<" ">> \o JoinSpace(Tail(strs))

\* str.split(): the maximal runs of non-whitespace, as spans <<begin, end>>.
RECURSIVE UnitSpans(_, _)
UnitSpans(txt, pos) ==
  IF pos >= Len(txt) THEN << >>
  ELSE IF txt[pos + 1] \in Space THEN UnitSpans(txt, pos + 1)
  ELSE LET ends == {e \in (pos + 1)..Len(txt) :
                       /\ \A j \in (pos + 1)..e : txt[j] \notin Space
                       /\ (e = Len(txt) \/ txt[e + 1] \in Space)}
           e == CHOOSE x \in ends : TRUE
       IN  << <<pos, e>> >> \o UnitSpans(txt, e)
Split(txt) == [k \in DOMAIN UnitSpans(txt, 0) |->
                 Slice(txt, UnitSpans(txt, 0)[k][1], UnitSpans(txt, 0)[k][2])]

\* str.strip(chars) and str.split(sep)
RECURSIVE LStrip(_, _)
LStrip(s, chars) == IF s # << >> /\ Head(s) \in chars THEN LStrip(Tail(s), chars) ELSE s
RECURSIVE RStrip(_, _)
RStrip(s, chars) ==
  IF s # << >> /\ s[Len(s)] \in chars THEN RStrip(SubSeq(s, 1, Len(s) - 1), chars) ELSE s
Strip(s, chars) == RStrip(LStrip(s, chars), chars)
RECURSIVE SplitOn(_, _, _)
SplitOn(s, sep, acc) ==
  IF s = << >> THEN << acc >>
  ELSE IF Head(s) = sep THEN << acc >> \o SplitOn(Tail(s), sep, << >>)
  ELSE SplitOn(Tail(s), sep, Append(acc, Head(s)))

(***************************************************************************)
(* Tokens and placeholders.                                                *)
(***************************************************************************)
Token(token, token_class) == [token |-> token, token_class |-> token_class]

unique_string_length == 7
alphabet == Lower

\* random.choice: the strings the model draws.  Specials are strings that a
\* later rule can match; the neutral strings q..q? are matched by no rule and
\* occur in no input but the one built from them, so they are interchangeable
\* and the first one the loop accepts stands for all of them.
Specials == { <<"e","m","o","j","i","a","b">> }
Neutral(k) ==
  [i \in 1..unique_string_length |-> IF i < unique_string_length THEN "q" ELSE Lowers[k]]
UniqueStrings == Specials \cup {Neutral(k) : k \in DOMAIN Lowers}

\* Faulty variants of the loop condition: one forgets the mapping, the other
\* forgets the text.
RejectedInTextOnly(unique_string, text, mapping) == IsSubstring(unique_string, text)
RejectedInMappingOnly(unique_string, text, mapping) == unique_string \in DOMAIN mapping

\* The loop condition of _get_unique_string.
Rejected(unique_string, text, mapping) ==
  unique_string \in DOMAIN mapping \/ IsSubstring(unique_string, text)

\* _get_unique_string(text): the strings the loop can exit with ({}: it cannot).
GetUniqueString(text, mapping) ==
  LET ok == {u \in UniqueStrings : ~Rejected(u, text, mapping)}
      ks == {k \in DOMAIN Lowers : Neutral(k) \in ok}
  IN  (ok \cap Specials) \cup {Neutral(k) : k \in {j \in ks : \A i \in ks : j <= i}}

(***************************************************************************)
(* The Span-Replacement Engine.  A pass state st is the mapping so far,    *)
(* the log of the calls of _get_unique_string (the string returned and the *)
(* keys of the mapping at the call) and the replacements made so far.      *)
(***************************************************************************)
\* _multipart_replace: the states after registering parts[k..], one
\* placeholder each; st.replacements is the list of placeholders.
RECURSIVE MultipartReplace(_, _, _, _, _)
MultipartReplace(text, parts, k, token_class, st) ==
  IF k > Len(parts) THEN {st}
  ELSE UNION { MultipartReplace(text, parts, k + 1, token_class,
                 [mapping |-> (u :> Token(parts[k], token_class)) @@ st.mapping,
                  calls |-> Append(st.calls, [unique_string |-> u,
                                              keys |-> DOMAIN st.mapping]),
                  replacements |-> Append(st.replacements, u)]) :
               u \in GetUniqueString(text, st.mapping) }

\* A faulty variant of Register: an instance that already has a replacement
\* is not registered again.
RECURSIVE RegisterOnce(_, _, _, _, _)
RegisterOnce(text, plan, k, token_class, st) ==
  IF k > Len(plan) THEN {st}
  ELSE IF plan[k].instance \in DOMAIN st.replacements
  THEN RegisterOnce(text, plan, k + 1, token_class, st)
  ELSE LET instance == plan[k].instance
           next == IF plan[k].multi
                   THEN { [mapping |-> mp.mapping, calls |-> mp.calls,
                           replacements |->
                             (instance :> JoinSpace(mp.replacements)) @@ st.replacements] :
                          mp \in MultipartReplace(text, plan[k].parts, 1, token_class,
                                   [mapping |-> st.mapping, calls |-> st.calls,
                                    replacements |-> << >>]) }
                   ELSE { [mapping |-> (u :> Token(instance, token_class)) @@ st.mapping,
                           calls |-> Append(st.calls, [unique_string |-> u,
                                                       keys |-> DOMAIN st.mapping]),
                           replacements |-> (instance :> u) @@ st.replacements] :
                          u \in GetUniqueString(text, st.mapping) }
       IN  UNION { RegisterOnce(text, plan, k + 1, token_class, s) : s \in next }

\* The loop over the matches (lines 222-233 and 268-279).  plan[k] is the
\* k-th match: its instance, whether it is replaced part by part, its parts.
RECURSIVE Register(_, _, _, _, _)
Register(text, plan, k, token_class, st) ==
  IF k > Len(plan) THEN {st}
  ELSE LET instance == plan[k].instance
           next == IF plan[k].multi
                   THEN { [mapping |-> mp.mapping, calls |-> mp.calls,
                           replacements |->
                             (instance :> JoinSpace(mp.replacements)) @@ st.replacements] :
                          mp \in MultipartReplace(text, plan[k].parts, 1, token_class,
                                   [mapping |-> st.mapping, calls |-> st.calls,
                                    replacements |-> << >>]) }
                   ELSE { [mapping |-> (u :> Token(instance, token_class)) @@ st.mapping,
                           calls |-> Append(st.calls, [unique_string |-> u,
                                                       keys |-> DOMAIN st.mapping]),
                           replacements |-> (instance :> u) @@ st.replacements] :
                          u \in GetUniqueString(text, st.mapping) }
       IN  UNION { Register(text, plan, k + 1, token_class, s) : s \in next }

\* A faulty variant of Splice: the replacement is not wrapped in spaces.
SpliceBare(cur, b, e, r) ==
  [text |-> SubSeq(cur.text, 1, b) \o r \o SubSeq(cur.text, e + 1, Len(cur.text)),
   prov |-> SubSeq(cur.prov, 1, b) \o Zeros(Len(r))
            \o SubSeq(cur.prov, e + 1, Len(cur.prov))]

\* for beginning, end in reversed(sorted(spans)): text = text[:beginning] +
\* " " + replacements[text[beginning:end]] + " " + text[end:]
\* cur is the text and, for each character, the offset in the input it comes
\* from (0: put in by the tokenizer).
Splice(cur, b, e, r) ==
  [text |-> SubSeq(cur.text, 1, b) \o <<" ">> \o r \o <<" ">>
            \o SubSeq(cur.text, e + 1, Len(cur.text)),
   prov |-> SubSeq(cur.prov, 1, b) \o Zeros(Len(r) + 2)
            \o SubSeq(cur.prov, e + 1, Len(cur.prov))]
RECURSIVE Substitute(_, _, _, _)
Substitute(cur, spans, k, replacements) ==
  IF k = 0 THEN cur
  ELSE Substitute(Splice(cur, spans[k][1], spans[k][2],
                         replacements[Slice(cur.text, spans[k][1], spans[k][2])]),
                  spans, k - 1, replacements)

\* The outcomes of a pass over the matches ms of text.
Pass(cur, mapping, ms, plan, token_class) ==
  { [text |-> Substitute(cur, Spans(ms), Len(ms), st.replacements).text,
     prov |-> Substitute(cur, Spans(ms), Len(ms), st.replacements).prov,
     mapping |-> st.mapping, calls |-> st.calls, replacements |-> st.replacements] :
    st \in Register(cur.text, plan, 1, token_class,
                    [mapping |-> mapping, calls |-> << >>, replacements |-> << >>]) }

\* _replace_regex(text, regex, token_class)
ReplaceRegex(cur, mapping, regex, token_class) ==
  LET ms == Matches(regex, cur.text)
      plan == [k \in DOMAIN ms |->
                 [instance |-> Slice(cur.text, ms[k].b, ms[k].e),
                  multi |-> Len(regex.named) > 0,
                  parts |-> [j \in DOMAIN regex.named |->
                               GroupText(cur.text, ms[k], regex.named[j])]]]
  IN  Pass(cur, mapping, ms, plan, token_class)

\* A faulty variant of AbbreviationParts: the instance is one part.
AbbreviationWhole(instance) == << instance >>

\* parts = [p.strip() + "." for p in instance.strip(".").split(".")]
AbbreviationParts(instance) ==
  LET split == SplitOn(Strip(instance, {"."}), ".", << >>)
  IN  [j \in DOMAIN split |-> Strip(split[j], Space) \o <<".">>]

\* The last pass of _replace_abbreviations (lines 268-282).
ReplaceAbbreviations(cur, mapping) ==
  LET ms == Matches(abbreviation, cur.text)
      plan == [k \in DOMAIN ms |->
                 LET instance == Slice(cur.text, ms[k].b, ms[k].e)
                     multi == FullMatch(multipart_abbreviation.re,
                                        multipart_abbreviation.ng, instance)
                 IN  [instance |-> instance, multi |-> multi,
                      parts |-> IF multi THEN AbbreviationParts(instance) ELSE << >>]]
  IN  Pass(cur, mapping, ms, plan, "abbreviation")

\* regex.sub(repl, text): repl is a list of group numbers, 0 for a space.
RECURSIVE Expand(_, _, _, _)
Expand(cur, m, repl, k) ==
  IF k > Len(repl) THEN [text |-> << >>, prov |-> << >>]
  ELSE LET piece == IF repl[k] = 0 THEN [text |-> <<" ">>, prov |-> <<0>>]
                    ELSE [text |-> Slice(cur.text, m.c[repl[k]][1], m.c[repl[k]][2]),
                          prov |-> Slice(cur.prov, m.c[repl[k]][1], m.c[repl[k]][2])]
           rest == Expand(cur, m, repl, k + 1)
       IN  [text |-> piece.text \o rest.text, prov |-> piece.prov \o rest.prov]
RECURSIVE SubFrom(_, _, _, _, _)
SubFrom(cur, ms, k, pos, repl) ==
  IF k > Len(ms)
  THEN [text |-> Slice(cur.text, pos, Len(cur.text)),
        prov |-> Slice(cur.prov, pos, Len(cur.text))]
  ELSE LET x == Expand(cur, ms[k], repl, 1)
           rest == SubFrom(cur, ms, k + 1, ms[k].e, repl)
       IN  [text |-> Slice(cur.text, pos, ms[k].b) \o x.text \o rest.text,
            prov |-> Slice(cur.prov, pos, ms[k].b) \o x.prov \o rest.prov]
RegexSub(cur, regex, repl) == SubFrom(cur, Matches(regex, cur.text), 1, 0, repl)

\* A faulty variant of ReintroduceInstances: the mapping is not consulted.
ReintroduceNothing(tokens, mapping) ==
  [k \in DOMAIN tokens |-> Token(tokens[k], "regular")]

\* _reintroduce_instances(tokens)
ReintroduceInstances(tokens, mapping) ==
  [k \in DOMAIN tokens |->
     IF tokens[k] \in DOMAIN mapping THEN mapping[tokens[k]]
     ELSE Token(tokens[k], "regular")]

(***************************************************************************)
(* The pipeline of tokenize (and of _replace_abbreviations, which it       *)
(* calls), one entry per statement, in the order of the source.            *)
(***************************************************************************)
Replace(regex, token_class) ==
  [op |-> "replace", regex |-> regex, token_class |-> token_class, camel |-> FALSE]
Sub(regex, repl) == [op |-> "sub", regex |-> regex, repl |-> repl, camel |-> FALSE]
IfCamel(st) == [st EXCEPT !.camel = TRUE]

Program == <<
  Replace(tag, "XML_tag"),                                   \* 298
  Replace(email, "email_address"),                           \* 300
  Sub(space_emoticon, <<1, 2>>),                             \* 303
  Replace(simple_url_with_brackets, "URL"),                  \* 306
  Replace(simple_url, "URL"),                                \* 307
  Replace(doi, "DOI"),                                       \* 308
  Replace(doi_with_space, "DOI"),                            \* 309
  Replace(url_without_protocol, "URL"),                      \* 310
  Sub(spaces, <<0>>),                                        \* 315
  Replace(heart_emoticon, "emoticon"),                       \* 316
  Replace(emoticon, "emoticon"),                             \* 317
  Replace(mention, "mention"),                               \* 320
  Replace(hashtag, "hashtag"),                               \* 321
  Replace(action_word, "action_word"),                       \* 323
  Replace(emoji, "emoticon"),                                \* 325
  Replace(token_with_plus_ampersand, "regular"),             \* 327
  IfCamel(Replace(camel_case_token, "regular")),             \* 331
  IfCamel(Replace(in_and_innen, "regular")),                 \* 332
  IfCamel(Sub(camel_case, <<0, 1>>)),                        \* 333
  Replace(single_letter_ellipsis, "abbreviation"),           \* 336 -> 260
  Replace(and_cetera, "abbreviation"),                       \* 261
  Replace(str_abbreviations, "abbreviation"),                \* 262
  Replace(nr_abbreviations, "abbreviation"),                 \* 263
  Replace(single_letter_abbreviation, "abbreviation"),       \* 264
  Replace(single_token_abbreviation, "abbreviation"),        \* 265
  Sub(spaces, <<0>>),                                        \* 266
  Replace(ps, "abbreviation"),                               \* 267
  [op |-> "abbreviations", camel |-> FALSE],                 \* 268-282
  Replace(three_part_date_year_first, "date"),               \* 340
  Replace(three_part_date_dmy, "date"),                      \* 341
  Replace(three_part_date_mdy, "date"),                      \* 342
  Replace(two_part_date, "date"),                            \* 343
  Replace(time, "time"),                                     \* 345
  Replace(ordinal, "ordinal"),                               \* 347
  Replace(fraction, "number"),                               \* 349
  Replace(amount, "amount"),                                 \* 351
  Replace(semester, "semester"),                             \* 353
  Replace(measurement, "measurement"),                       \* 355
  Replace(number_compound, "number_compound"),               \* 357
  Replace(number, "number"),                                 \* 359
  Replace(quest_exclam, "symbol"),                           \* 362
  Sub(space_right_arrow, <<1, 2>>),                          \* 364
  Sub(space_left_arrow, <<1, 2>>),                           \* 365
  Replace(arrow, "symbol"),                                  \* 366
  Sub(paired_paren, <<0, 1, 0, 2, 0, 3, 0>>),                \* 368
  Sub(paired_bracket, <<0, 1, 0, 2, 0, 3, 0>>),              \* 369
  Sub(paren, <<0, 1, 0>>),                                   \* 370
  Replace(all_paren, "symbol"),                              \* 371
  Replace(slash, "symbol"),                                  \* 374
  Sub(paired_double_latex_quote, <<0, 1, 0, 2, 0, 3, 0>>),   \* 376
  Sub(paired_single_latex_quote, <<0, 1, 0, 2, 0, 3, 0>>),   \* 377
  Sub(paired_single_quot_mark, <<0, 1, 0, 2, 0, 3, 0>>),     \* 379
  Replace(all_quote, "symbol"),                              \* 380
  Replace(other_punctuation, "symbol"),                      \* 383
  Replace(ellipsis, "symbol"),                               \* 385
  Replace(dot_without_space, "symbol"),                      \* 388
  Replace(dot, "symbol") >>                                  \* 390
(***************************************************************************)
(* The state.  One Tokenizer instance: its two options and its mapping.    *)
(* A call of tokenize has its own position pc, working text paragraph and  *)
(* result; callers are numbered.  prov, input, own and last are history:   *)
(* where each character of the working text comes from, the paragraph as   *)
(* it was passed, the entries the call registered itself, and the last     *)
(* pass made (the text, provenance and mapping it started from, the calls  *)
(* of _get_unique_string it made and its replacements).                    *)
(***************************************************************************)
VARIABLES split_camel_case, token_classes, mapping,
          pc, paragraph, result,
          prov, input, own, last

vars == <<split_camel_case, token_classes, mapping, pc, paragraph, result,
          prov, input, own, last>>

Callers == {1, 2}
Idle == 0
Tokenize == Len(Program) + 1          \* line 393
Returned == Len(Program) + 2

\* The concatenation of the strings of a set, in some order.
RECURSIVE ConcatAll(_)
ConcatAll(strs) ==
  IF strs = {} THEN << >>
  ELSE LET s == CHOOSE x \in strs : TRUE IN s \o ConcatAll(strs \ {s})

\* A paragraph with a tag that contains every string _get_unique_string can
\* draw.  UniqueStrings stands for the 26^7 strings over the alphabet, and
\* this paragraph for one that contains them all.
Exhausting == <<"<","a",">">> \o ConcatAll(UniqueStrings)

\* The paragraphs: the concatenations of at most MaxChunks chunks.
MaxChunks == 1
Chunks == { <<"<","a",">">>,
            <<":"," ",")">>,
            <<"z",".","B",".">>,
            <<"D","r","."," ","x">>,
            <<"D","r",".","D","r",".">>,
            <<"*","x","*"," ","*","x","*">>,
            <<"<","e","m","o","j","i","a","b",">"," ",".">>,
            Exhausting }
RECURSIVE Concats(_)
Concats(n) ==
  IF n = 0 THEN { << >> }
  ELSE Concats(n - 1) \cup {s \o c : s \in Concats(n - 1), c \in Chunks}
Inputs == Concats(MaxChunks)

\* The paragraphs of two calls that interleave.
Interleaved == { <<"<","a",">">> }

NoPass == [caller |-> 0, stage |-> 0, text |-> << >>, prov |-> << >>,
           mapping |-> << >>, calls |-> << >>, replacements |-> << >>]

\* Tokenizer.__init__
Init ==
  /\ split_camel_case \in BOOLEAN
  /\ token_classes \in BOOLEAN
  /\ mapping = << >>
  /\ pc = [c \in Callers |-> Idle]
  /\ paragraph = [c \in Callers |-> << >>]
  /\ result = [c \in Callers |-> << >>]
  /\ prov = [c \in Callers |-> << >>]
  /\ input = [c \in Callers |-> << >>]
  /\ own = [c \in Callers |-> << >>]
  /\ last = NoPass

\* A faulty variant of After: the camelCase block is never skipped.
AfterAll(k) == k + 1

\* The statement after statement k: the camelCase block is skipped unless
\* split_camel_case (line 330).
After(k) ==
  IF split_camel_case THEN k + 1
  ELSE CHOOSE j \in (k + 1)..Tokenize :
         /\ j = Tokenize \/ ~Program[j].camel
         /\ \A i \in (k + 1)..(j - 1) : Program[i].camel

Cur(c) == [text |-> paragraph[c], prov |-> prov[c]]

\* A faulty variant of Call: the mapping is not reset.
CallKeeping(c, paragraphs) ==
  /\ pc[c] = Idle
  /\ \E p \in paragraphs :
       /\ paragraph' = [paragraph EXCEPT ![c] = p]
       /\ input' = [input EXCEPT ![c] = p]
       /\ prov' = [prov EXCEPT ![c] = [i \in 1..Len(p) |-> i]]
  /\ own' = [own EXCEPT ![c] = << >>]
  /\ pc' = [pc EXCEPT ![c] = 1]
  /\ UNCHANGED <<split_camel_case, token_classes, mapping, result, last>>

\* tokenize(paragraph) is entered: the mapping is reset (line 292).
Call(c, paragraphs) ==
  /\ pc[c] = Idle
  /\ \E p \in paragraphs :
       /\ paragraph' = [paragraph EXCEPT ![c] = p]
       /\ input' = [input EXCEPT ![c] = p]
       /\ prov' = [prov EXCEPT ![c] = [i \in 1..Len(p) |-> i]]
  /\ mapping' = << >>
  /\ own' = [own EXCEPT ![c] = << >>]
  /\ pc' = [pc EXCEPT ![c] = 1]
  /\ UNCHANGED <<split_camel_case, token_classes, result, last>>

\* The history of a pass by caller c.
Started(c, calls, replacements) ==
  [caller |-> c, stage |-> pc[c], text |-> paragraph[c], prov |-> prov[c],
   mapping |-> mapping, calls |-> calls, replacements |-> replacements]

\* What a pass with outcome o leaves.
Passed(c, o) ==
  /\ paragraph' = [paragraph EXCEPT ![c] = o.text]
  /\ prov' = [prov EXCEPT ![c] = o.prov]
  /\ mapping' = o.mapping
  /\ own' = [own EXCEPT ![c] =
               [u \in DOMAIN own[c] \cup {o.calls[k].unique_string : k \in DOMAIN o.calls} |->
                  IF \E k \in DOMAIN o.calls : o.calls[k].unique_string = u
                  THEN o.mapping[u] ELSE own[c][u]]]
  /\ last' = Started(c, o.calls, o.replacements)
  /\ pc' = [pc EXCEPT ![c] = After(pc[c])]
  /\ UNCHANGED <<split_camel_case, token_classes, result, input>>

\* paragraph = self._replace_regex(paragraph, regex, token_class)
ReplaceStage(c) ==
  /\ pc[c] \in DOMAIN Program
  /\ Program[pc[c]].op = "replace"
  /\ \E o \in ReplaceRegex(Cur(c), mapping, Program[pc[c]].regex,
                           Program[pc[c]].token_class) : Passed(c, o)

\* The last pass of _replace_abbreviations.
AbbreviationsStage(c) ==
  /\ pc[c] \in DOMAIN Program
  /\ Program[pc[c]].op = "abbreviations"
  /\ \E o \in ReplaceAbbreviations(Cur(c), mapping) : Passed(c, o)

\* paragraph = regex.sub(repl, paragraph)
SubStage(c) ==
  /\ pc[c] \in DOMAIN Program
  /\ Program[pc[c]].op = "sub"
  /\ LET o == RegexSub(Cur(c), Program[pc[c]].regex, Program[pc[c]].repl)
     IN  /\ paragraph' = [paragraph EXCEPT ![c] = o.text]
         /\ prov' = [prov EXCEPT ![c] = o.prov]
  /\ last' = Started(c, << >>, << >>)
  /\ pc' = [pc EXCEPT ![c] = After(pc[c])]
  /\ UNCHANGED <<split_camel_case, token_classes, mapping, result, input, own>>

\* Lines 393-401: split, restore, return.
Return(c) ==
  /\ pc[c] = Tokenize
  /\ LET tokens == ReintroduceInstances(Split(Strip(paragraph[c], Space)), mapping)
     IN  result' = [result EXCEPT ![c] =
                      IF token_classes THEN tokens
                      ELSE [k \in DOMAIN tokens |-> tokens[k].token]]
  /\ pc' = [pc EXCEPT ![c] = Returned]
  /\ UNCHANGED <<split_camel_case, token_classes, mapping, paragraph, prov, input,
                 own, last>>

\* One call of tokenize at a time.
Next ==
  \/ Call(1, Inputs)
  \/ ReplaceStage(1)
  \/ AbbreviationsStage(1)
  \/ SubStage(1)
  \/ Return(1)
Spec == Init /\ [][Next]_vars

\* Two calls on the one instance, interleaved at the statements of tokenize.
InterleavedCall == \E c \in Callers : Call(c, Interleaved)
InterleavedReplaceStage == \E c \in Callers : ReplaceStage(c)
InterleavedAbbreviationsStage == \E c \in Callers : AbbreviationsStage(c)
InterleavedSubStage == \E c \in Callers : SubStage(c)
InterleavedReturn == \E c \in Callers : Return(c)
InterleavedNext ==
  \/ InterleavedCall
  \/ InterleavedReplaceStage
  \/ InterleavedAbbreviationsStage
  \/ InterleavedSubStage
  \/ InterleavedReturn
\* Tokenizer(): the options at their defaults.
DefaultInit == Init /\ ~split_camel_case /\ ~token_classes
InterleavedSpec == DefaultInit /\ [][InterleavedNext]_vars

\* One call after the other on the one instance: call 2 is entered when call
\* 1 has returned.
Repeated == { <<"<","a",">">>, <<"D","r","."," ","x">> }
Turn(c) == c = 1 \/ pc[1] = Returned
RepeatedCall == \E c \in Callers : Turn(c) /\ Call(c, Repeated)
RepeatedReplaceStage == \E c \in Callers : Turn(c) /\ ReplaceStage(c)
RepeatedAbbreviationsStage == \E c \in Callers : Turn(c) /\ AbbreviationsStage(c)
RepeatedSubStage == \E c \in Callers : Turn(c) /\ SubStage(c)
RepeatedReturn == \E c \in Callers : Turn(c) /\ Return(c)
RepeatedNext ==
  \/ RepeatedCall
  \/ RepeatedReplaceStage
  \/ RepeatedAbbreviationsStage
  \/ RepeatedSubStage
  \/ RepeatedReturn
RepeatedSpec == Init /\ [][RepeatedNext]_vars

(***************************************************************************)
(* Vocabulary of the properties.                                           *)
(***************************************************************************)
\* The texts of a result (a result holds Tokens iff token_classes).
Texts(r) == IF token_classes THEN [k \in DOMAIN r |-> r[k].token] ELSE r

RECURSIVE Flatten(_)
Flatten(strs) == IF strs = << >> THEN << >> ELSE Head(strs) \o Flatten(Tail(strs))

NonSpace(ch) == ch \notin Space
Count(s, ch) == Cardinality({i \in DOMAIN s : s[i] = ch})

\* The pattern applied at statement k.
StageRegex(k) == IF Program[k].op = "abbreviations" THEN abbreviation ELSE Program[k].regex

\* The last pass was a pass of the given kind.
LastWas(op) == last.stage \in DOMAIN Program /\ Program[last.stage].op = op

\* The matches of the last pass, in the text it started from.
LastMatches == Matches(StageRegex(last.stage), last.text)
LastInstance(k) == Slice(last.text, LastMatches[k].b, LastMatches[k].e)
\* The texts matched, in the order of the matches ms.
Instances(ms) == [k \in DOMAIN ms |-> Slice(last.text, ms[k].b, ms[k].e)]

\* What a span of a text is made of: characters the tokenizer put in, or
\* characters of the paragraph.
Inserted(p, span) == \A j \in (span[1] + 1)..span[2] : p[j] = 0
Original(p, span) == \A j \in (span[1] + 1)..span[2] : p[j] > 0

\* A string of two or more groups of letters, each ended by a dot.
LetterDotGroups(s) ==
  /\ s # << >>
  /\ \A i \in DOMAIN s : s[i] \in Alpha \cup {"."}
  /\ s[1] # "." /\ s[Len(s)] = "."
  /\ \A i \in 1..(Len(s) - 1) : ~(s[i] = "." /\ s[i + 1] = ".")
  /\ Count(s, ".") >= 2

\* A string of one or more entries of the abbreviation lexicon.
LexiconEntries(s) == FullMatch(<<Plus(<<LexAltI(abbreviation_list)>>)>>, 0, s)

\* The placeholders that replaced an instance in the last pass split one per
\* dot-ended part, in order, each registered as an abbreviation.
SplitByPart(instance) ==
  LET units == Split(last.replacements[instance])
  IN  /\ Len(units) = Count(instance, ".")
      /\ \A j \in DOMAIN units :
           /\ units[j] \in DOMAIN mapping
           /\ mapping[units[j]].token_class = "abbreviation"
           /\ Count(mapping[units[j]].token, ".") = 1
           /\ mapping[units[j]].token[Len(mapping[units[j]].token)] = "."
      /\ (\A j \in DOMAIN units : units[j] \in DOMAIN mapping) =>
           Flatten([j \in DOMAIN units |-> mapping[units[j]].token]) = instance

\* The instance was replaced by one placeholder, registered as one abbreviation.
KeptWhole(instance) ==
  LET units == Split(last.replacements[instance])
  IN  /\ Len(units) = 1
      /\ units[1] \in DOMAIN mapping
      /\ mapping[units[1]] = Token(instance, "abbreviation")

\* The text of a pass rebuilt from left to right: each match replaced by the
\* replacement of the text matched, between two spaces.
RECURSIVE Rebuild(_, _, _, _, _)
Rebuild(txt, ms, k, pos, replacements) ==
  IF k > Len(ms) THEN Slice(txt, pos, Len(txt))
  ELSE Slice(txt, pos, ms[k].b) \o <<" ">>
       \o replacements[Slice(txt, ms[k].b, ms[k].e)] \o <<" ">>
       \o Rebuild(txt, ms, k + 1, ms[k].e, replacements)

(***************************************************************************)
(* The properties.                                                         *)
(***************************************************************************)
\* C1: once a placeholder is in the working text, no pattern of a later
\* stage matches text that overlaps it, and no placeholder string is the
\* text of an output token.
C1_PlaceholderIsolation ==
  /\ last.stage \in DOMAIN Program =>
       \A k \in DOMAIN LastMatches :
         \A j \in (LastMatches[k].b + 1)..LastMatches[k].e :
           last.prov[j] > 0 \/ last.text[j] \in Space
  /\ pc[1] = Returned =>
       \A k \in DOMAIN result[1] : Texts(result[1])[k] \notin DOMAIN mapping

\* C2: the text of every returned token is a contiguous substring of the
\* paragraph as it was passed.
C2_TokenIsSubstring ==
  pc[1] = Returned =>
    \A k \in DOMAIN result[1] : IsSubstring(Texts(result[1])[k], input[1])

\* C3: the token texts, concatenated in order, are the non-whitespace
\* characters of the paragraph, in order.
C3_CharactersPreserved ==
  pc[1] = Returned =>
    Flatten(Texts(result[1])) = SelectSeq(input[1], NonSpace)

\* C4 (as stated): in the last pass of _replace_abbreviations an instance of
\* two or more letter-dot groups is replaced by one placeholder per part, and
\* an instance matched through the lexicon is kept as one token.
C4_LexiconNeverSplit ==
  LastWas("abbreviations") =>
    \A k \in DOMAIN LastMatches :
      /\ LetterDotGroups(LastInstance(k)) /\ ~LexiconEntries(LastInstance(k))
           => SplitByPart(LastInstance(k))
      /\ LexiconEntries(LastInstance(k)) => KeptWhole(LastInstance(k))

\* C4 (amended): in the last pass of _replace_abbreviations an instance of two
\* or more letter-dot groups is replaced by one placeholder per dot-ended
\* part, in order, each registered as an abbreviation, the parts making up
\* the instance, whether or not it was matched through the lexicon; any other
\* instance is kept as one token of class abbreviation.
C4_SplitByShape ==
  LastWas("abbreviations") =>
    LET inst == Instances(LastMatches)
    IN  \A k \in DOMAIN inst :
          IF LetterDotGroups(inst[k]) THEN SplitByPart(inst[k]) ELSE KeptWhole(inst[k])

\* An instance made of lexicon entries has been split.
C4_Witness ==
  /\ LastWas("abbreviations")
  /\ \E k \in DOMAIN LastMatches :
       /\ LexiconEntries(LastInstance(k))
       /\ LetterDotGroups(LastInstance(k))
       /\ Len(Split(last.replacements[LastInstance(k)])) = 2

\* C5: two calls that interleave never share a mapping table: while a call
\* runs the mapping holds exactly the entries the call registered, and the
\* call returns what the restoration from its own entries gives.
C5_OwnMappingTable ==
  \A c \in Callers :
    /\ pc[c] \in 1..Tokenize => mapping = own[c]
    /\ pc[c] = Returned =>
         LET tokens == ReintroduceInstances(Split(Strip(paragraph[c], Space)), own[c])
         IN  Texts(result[c]) = [k \in DOMAIN tokens |-> tokens[k].token]

\* C6: every pass of a call of tokenize comes to an end: the loop of each
\* _get_unique_string it calls exits, so that the call goes on to return.
C6_Terminates ==
  /\ pc[1] \in DOMAIN Program /\ Program[pc[1]].op = "replace" =>
       ReplaceRegex(Cur(1), mapping, Program[pc[1]].regex,
                    Program[pc[1]].token_class) # {}
  /\ pc[1] \in DOMAIN Program /\ Program[pc[1]].op = "abbreviations" =>
       ReplaceAbbreviations(Cur(1), mapping) # {}

\* C7: the result has one element per whitespace-delimited unit of the final
\* working text, in order: a unit the tokenizer put in yields the Token
\* registered for it, any other unit is no key of the mapping and yields
\* (unit, "regular"); without token_classes the result is the texts; the
\* empty paragraph yields the empty result.
C7_Restoration ==
  pc[1] = Returned =>
    LET units == UnitSpans(paragraph[1], 0)
        unit(k) == Slice(paragraph[1], units[k][1], units[k][2])
        token(k) == IF Inserted(prov[1], units[k]) /\ unit(k) \in DOMAIN mapping
                    THEN mapping[unit(k)] ELSE Token(unit(k), "regular")
    IN  /\ Len(result[1]) = Len(units)
        /\ \A k \in DOMAIN units :
             /\ Inserted(prov[1], units[k]) \/ Original(prov[1], units[k])
             /\ Inserted(prov[1], units[k]) <=> unit(k) \in DOMAIN mapping
             /\ k \in DOMAIN result[1] =>
                  result[1][k] = IF token_classes THEN token(k) ELSE token(k).token
        /\ input[1] = << >> => result[1] = << >>

\* A result with a restored unit and a unit of the paragraph, as Tokens.
C7_Witness ==
  /\ pc[1] = Returned /\ token_classes
  /\ \E k \in DOMAIN result[1] : result[1][k].token_class # "regular"
  /\ \E k \in DOMAIN UnitSpans(paragraph[1], 0) :
       Original(prov[1], UnitSpans(paragraph[1], 0)[k])

\* C8: every string _get_unique_string returns has length 7, is made of
\* lowercase letters, is no substring of the text passed in and no key of
\* the mapping at the call, so that registering it overwrites no entry.
C8_UniqueString ==
  LastWas("replace") \/ LastWas("abbreviations") =>
    /\ \A k \in DOMAIN last.calls :
         /\ Len(last.calls[k].unique_string) = 7
         /\ \A i \in DOMAIN last.calls[k].unique_string :
              last.calls[k].unique_string[i] \in Lower
         /\ ~IsSubstring(last.calls[k].unique_string, last.text)
         /\ last.calls[k].unique_string \notin last.calls[k].keys
         /\ DOMAIN last.mapping \subseteq last.calls[k].keys
         /\ \A j \in 1..(k - 1) : last.calls[j].unique_string \in last.calls[k].keys
    /\ Cardinality(DOMAIN mapping) = Cardinality(DOMAIN last.mapping) + Len(last.calls)

\* A pass that called _get_unique_string several times on the same text.
C8_Witness ==
  /\ LastWas("replace") \/ LastWas("abbreviations")
  /\ Len(last.calls) >= 2

\* C9 (as stated): no placeholder a call issues is a substring of the
\* paragraph as it was passed to tokenize.
C9_NotInInput ==
  last.stage \in DOMAIN Program =>
    \A k \in DOMAIN last.calls :
      ~IsSubstring(last.calls[k].unique_string, input[last.caller])

\* C9 (amended): a placeholder is no substring of what the working text of
\* the issuing stage still holds of the paragraph: every occurrence of it in
\* the paragraph as passed has lost a character to an earlier replacement.
C9_NotInRemainingInput ==
  last.stage \in DOMAIN Program =>
    \A k \in DOMAIN last.calls :
      \A i \in 0..(Len(input[last.caller]) - Len(last.calls[k].unique_string)) :
        Slice(input[last.caller], i, i + Len(last.calls[k].unique_string))
            = last.calls[k].unique_string
          => \E j \in (i + 1)..(i + Len(last.calls[k].unique_string)) :
               \A n \in DOMAIN last.prov : last.prov[n] # j

\* A placeholder that is a substring of the paragraph as passed.
C9_Witness ==
  /\ last.stage \in DOMAIN Program
  /\ \E k \in DOMAIN last.calls :
       IsSubstring(last.calls[k].unique_string, input[last.caller])

\* C10: the result of _replace_regex is the text with every matched span
\* replaced by the replacement of the text matched there, between two
\* spaces, the rest unchanged; a match contributes one unit, or as many units
\* as the rule has named groups, all registered under the rule's class.
C10_ReplaceRegex ==
  LastWas("replace") =>
    LET ms == LastMatches
        inst == Instances(ms)
        named == Program[last.stage].regex.named
    IN  /\ paragraph[last.caller] = Rebuild(last.text, ms, 1, 0, last.replacements)
        /\ \A k \in DOMAIN ms :
             LET units == Split(last.replacements[inst[k]])
             IN  /\ Len(units) = IF Len(named) > 0 THEN Len(named) ELSE 1
                 /\ \A j \in DOMAIN units :
                      /\ units[j] \in DOMAIN mapping
                      /\ mapping[units[j]].token_class = Program[last.stage].token_class

\* A pass of a rule with named groups that replaced two spans.
C10_Witness ==
  /\ LastWas("replace")
  /\ Len(Program[last.stage].regex.named) > 1
  /\ Len(LastMatches) >= 2

\* The number of placeholders that replace each of the texts matched in the
\* last pass.
Counts(inst) == [k \in DOMAIN inst |-> Len(Split(last.replacements[inst[k]]))]

\* The sum of the first k of the numbers n that the test keeps.
RECURSIVE SumTo(_, _, _)
SumTo(n, keep, k) ==
  IF k = 0 THEN 0 ELSE SumTo(n, keep, k - 1) + (IF keep[k] THEN n[k] ELSE 0)

\* For each match, whether it is the last match of its text.
LastOfItsText(inst) ==
  [k \in DOMAIN inst |-> \A n \in DOMAIN inst : n > k => inst[n] # inst[k]]
Every(inst) == [k \in DOMAIN inst |-> TRUE]

\* The entries the last pass added to the mapping.
Added == DOMAIN mapping \ DOMAIN last.mapping

\* C11 (as stated): a pass that matches the same text at several spans
\* registers one placeholder for it: the pass adds one mapping entry (one per
\* part) for each distinct text matched, and every entry it adds is in the
\* working text.
C11_OnePlaceholderPerText ==
  LastWas("replace") \/ LastWas("abbreviations") =>
    LET inst == Instances(LastMatches)
    IN  /\ Cardinality(Added) = SumTo(Counts(inst), LastOfItsText(inst), Len(inst))
        /\ \A u \in Added : IsSubstring(u, paragraph[last.caller])

\* C11 (amended): a pass registers placeholders for every match, also when
\* the same text is matched at several spans: the pass adds one mapping entry
\* (one per part) for each match; the placeholders registered for the last
\* match of a text are the ones substituted at every span of that text; the
\* placeholders registered for its earlier matches stay in the mapping, with
\* Tokens of the same texts, and are absent from the working text.
C11_OnePlaceholderPerMatch ==
  LastWas("replace") \/ LastWas("abbreviations") =>
    LET inst == Instances(LastMatches)
        n == Counts(inst)
        final == LastOfItsText(inst)
        before == [k \in DOMAIN inst |-> SumTo(n, Every(inst), k - 1)]
        registered == [k \in DOMAIN inst |->
                         [j \in 1..n[k] |-> last.calls[before[k] + j].unique_string]]
    IN  /\ Len(last.calls) = SumTo(n, Every(inst), Len(inst))
        /\ Cardinality(Added) = Len(last.calls)
        /\ \A k \in DOMAIN inst :
             /\ \A j \in DOMAIN registered[k] : registered[k][j] \in Added
             /\ final[k] =>
                  /\ last.replacements[inst[k]] = JoinSpace(registered[k])
                  /\ \A j \in DOMAIN registered[k] :
                       IsSubstring(<<" ">> \o registered[k][j] \o <<" ">>,
                                   paragraph[last.caller])
             /\ ~final[k] =>
                  \A j \in DOMAIN registered[k] :
                    /\ ~IsSubstring(registered[k][j], paragraph[last.caller])
                    /\ \E m \in DOMAIN inst :
                         /\ m > k /\ final[m] /\ inst[m] = inst[k]
                         /\ mapping[registered[k][j]] = mapping[registered[m][j]]

\* A pass that matched the same text at two spans.
C11_Witness ==
  /\ LastWas("replace") \/ LastWas("abbreviations")
  /\ \E k \in DOMAIN LastMatches : ~LastOfItsText(Instances(LastMatches))[k]

\* The stage categories in their order, each the list of its stages: the kind
\* of the stage and its pattern.
Replacing(regex) == <<"replace", regex>>
Substituting(regex) == <<"sub", regex>>
Categories == <<
  \* XML tags and emails
  << Replacing(tag), Replacing(email) >>,
  \* emoticon whitespace fix
  << Substituting(space_emoticon) >>,
  \* URLs and DOIs
  << Replacing(simple_url_with_brackets), Replacing(simple_url), Replacing(doi),
     Replacing(doi_with_space), Replacing(url_without_protocol) >>,
  \* heart and general emoticons (after whitespace normalisation)
  << Substituting(spaces), Replacing(heart_emoticon), Replacing(emoticon) >>,
  \* mentions, hashtags, action words, emoji names
  << Replacing(mention), Replacing(hashtag), Replacing(action_word), Replacing(emoji) >>,
  \* plus/ampersand lexicon tokens
  << Replacing(token_with_plus_ampersand) >>,
  \* camelCase handling: exception protection, then the split
  << Replacing(camel_case_token), Replacing(in_and_innen), Substituting(camel_case) >>,
  \* Abbreviation Resolver
  << Replacing(single_letter_ellipsis), Replacing(and_cetera),
     Replacing(str_abbreviations), Replacing(nr_abbreviations),
     Replacing(single_letter_abbreviation), Replacing(single_token_abbreviation),
     Substituting(spaces), Replacing(ps), <<"abbreviations", abbreviation>> >>,
  \* dates and numbers
  << Replacing(three_part_date_year_first), Replacing(three_part_date_dmy),
     Replacing(three_part_date_mdy), Replacing(two_part_date), Replacing(time),
     Replacing(ordinal), Replacing(fraction), Replacing(amount), Replacing(semester),
     Replacing(measurement), Replacing(number_compound), Replacing(number) >>,
  \* punctuation, ending with the rule for all remaining periods
  << Replacing(quest_exclam), Substituting(space_right_arrow),
     Substituting(space_left_arrow), Replacing(arrow), Substituting(paired_paren),
     Substituting(paired_bracket), Substituting(paren), Replacing(all_paren),
     Replacing(slash), Substituting(paired_double_latex_quote),
     Substituting(paired_single_latex_quote), Substituting(paired_single_quot_mark),
     Replacing(all_quote), Replacing(other_punctuation), Replacing(ellipsis),
     Replacing(dot_without_space), Replacing(dot) >> >>
CamelCaseCategory ==
  CHOOSE n \in DOMAIN Categories : Categories[n][1] = Replacing(camel_case_token)

\* The category of the k-th stage of the categories laid end to end.
RECURSIVE StagesUpTo(_)
StagesUpTo(n) == IF n = 0 THEN 0 ELSE StagesUpTo(n - 1) + Len(Categories[n])
CategoryOf(k) ==
  CHOOSE n \in DOMAIN Categories : StagesUpTo(n - 1) < k /\ k <= StagesUpTo(n)

\* Stage k is to be executed: it is no camelCase stage, or split_camel_case.
Executes(k) == CategoryOf(k) # CamelCaseCategory \/ split_camel_case

\* The stage to be executed after stage k (after the last: the split).
Following(k) ==
  CHOOSE j \in (k + 1)..(StagesUpTo(Len(Categories)) + 1) :
    /\ j = StagesUpTo(Len(Categories)) + 1 \/ Executes(j)
    /\ \A i \in (k + 1)..(j - 1) : ~Executes(i)

\* C12: a call executes the stages of the categories once each in the fixed
\* order, the camelCase category iff split_camel_case, then splits and
\* restores; no stage is executed after the split.
C12_StageOrder ==
  [][ /\ [k \in DOMAIN Program |-> <<Program[k].op, StageRegex(k)>>]
           = Flatten(Categories)
      /\ pc[1]' # pc[1] =>
           \/ pc[1] = Idle /\ pc[1]' = Following(0)
           \/ /\ pc[1] \in 1..StagesUpTo(Len(Categories))
              /\ Executes(pc[1])
              /\ last'.caller = 1 /\ last'.stage = pc[1]
              /\ pc[1]' = Following(pc[1])
           \/ /\ pc[1] = StagesUpTo(Len(Categories)) + 1
              /\ pc[1]' = pc[1] + 1
              /\ last' = last /\ paragraph' = paragraph
              /\ Len(result[1]') = Len(Split(paragraph[1])) ]_vars

\* A call that skipped the camelCase category has returned.
C12_Witness ==
  /\ pc[1] = Returned /\ ~split_camel_case
  /\ last.stage = Len(Program)
  /\ input[1] # << >>

\* The results tokenize can return for a text from statement k on, given the
\* mapping: what a call on an instance that made no call before can return
\* is Alone(the paragraph, the empty mapping, the first statement).
RECURSIVE Alone(_, _, _)
Alone(cur, m, k) ==
  IF k = Tokenize
  THEN LET tokens == ReintroduceInstances(Split(Strip(cur.text, Space)), m)
       IN  { IF token_classes THEN tokens ELSE [j \in DOMAIN tokens |-> tokens[j].token] }
  ELSE IF Program[k].op = "sub"
  THEN Alone(RegexSub(cur, Program[k].regex, Program[k].repl), m, After(k))
  ELSE UNION { Alone([text |-> o.text, prov |-> o.prov], o.mapping, After(k)) :
               o \in IF Program[k].op = "replace"
                     THEN ReplaceRegex(cur, m, Program[k].regex, Program[k].token_class)
                     ELSE ReplaceAbbreviations(cur, m) }

\* Call c is the latest call entered.
Latest(c) == pc[c] # Idle /\ (c = 1 => pc[2] = Idle)

\* A mapping with the given keys.
KeysOnly(keys) == [u \in keys |-> Token(<< >>, "regular")]

\* C13 (as stated): over calls made one after the other the mapping is empty
\* at the start of each call, is consulted in the final restoration only (no
\* call of _get_unique_string depends on it), is discarded when the call
\* returns, and holds no entry of an earlier call during a later one, whose
\* result is one the call can return on an instance that made no call before.
C13_DiscardedAtReturn ==
  /\ \A c \in Callers : pc[c] = 1 => mapping = << >>
  /\ (LastWas("replace") \/ LastWas("abbreviations")) =>
       \A k \in DOMAIN last.calls :
         GetUniqueString(last.text, KeysOnly(last.calls[k].keys))
           = GetUniqueString(last.text, << >>)
  /\ \A c \in Callers : Latest(c) /\ pc[c] = Returned => mapping = << >>
  /\ \A c \in Callers : Latest(c) /\ pc[c] \in 1..Tokenize => mapping = own[c]
  /\ pc[2] = Returned =>
       result[2] \in Alone([text |-> input[2], prov |-> [i \in DOMAIN input[2] |-> i]],
                           << >>, 1)

\* C13 (amended): over calls made one after the other the mapping is empty
\* at the start of each call and holds, while the call runs, exactly the
\* entries the call has registered, so that no entry of an earlier call is
\* visible to a later one, whose result is one the call can return on an
\* instance that made no call before; when the call has returned the mapping
\* is not discarded: it keeps the entries of the call until the next call
\* resets it.
C13_ResetAtCall ==
  /\ \A c \in Callers : pc[c] = 1 => mapping = << >>
  /\ \A c \in Callers : Latest(c) /\ pc[c] \in 1..Tokenize => mapping = own[c]
  /\ \A c \in Callers : Latest(c) /\ pc[c] = Returned => mapping = own[c]
  /\ pc[2] = Returned =>
       result[2] \in Alone([text |-> input[2], prov |-> [i \in DOMAIN input[2] |-> i]],
                           << >>, 1)

\* A later call has returned after an earlier call on another paragraph, both
\* having registered entries.
C13_Witness ==
  /\ pc[1] = Returned /\ pc[2] = Returned
  /\ own[1] # << >> /\ own[2] # << >>
  /\ input[1] # input[2]

=============================================================================
